---- MODULE Spec2Model ----
(***************************************************************************)
(* Model of kbdgen's command-line entry point, pysrc/kbdgen/cli.py.        *)
(*                                                                         *)
(* One run of run_cli(cli_args) is a straight line of stages:              *)
(*   parse_args -> print_diagnostics -> Parser().parse -> gen.get          *)
(*   -> generator(project, kwargs) -> x.generate(x.output_dir)             *)
(* The collaborators (Parser, the registry gen, the generators, logger)    *)
(* live outside cli.py; what they return or raise is chosen                *)
(* nondeterministically, what cli.py does with it is translated from the   *)
(* code.  The argument list is modelled keyed by option; it contains no    *)
(* --version / -h and none of the pass-through options that run_cli never  *)
(* reads.                                                                  *)
(***************************************************************************)
EXTENDS Integers, Sequences, FiniteSets, TLC

(* ---- bounds ---- *)
MaxArgs == 2     \* longest e.args of an exception raised by the loader
MaxPairs == 2    \* longest -K list
MaxEnv == 1      \* number of environment variables dumped

(* ---- values ---- *)
None == "None"                      \* Python's None where a string may stand
Absent == <<>>                      \* option not given (value None) for list-valued options
Some(v) == <<v>>

RECURSIVE SeqsUpTo(_, _)
SeqsUpTo(S, n) ==
    IF n = 0 THEN {<<>>}
    ELSE LET shorter == SeqsUpTo(S, n - 1)
         IN  shorter \cup {Append(s, e) : s \in {t \in shorter : Len(t) = n - 1}, e \in S}

Targets == {"ios", "win"}           \* gen.keys()
Classes == {"Generator"}            \* the constructors the registry holds
\* the registry gen: a mapping target -> constructor; a slot may hold None,
\* which is the only way gen.get(args.target) is None after parse_args
Registries == [Targets -> Classes \cup {None}]

Bundles == {"sme.kbdgen"}
Projects == {"projA", "projB"}      \* what Parser().parse may return
\* -K values, character by character: a=1, a.b=2, a=x=y
Overrides == {<<"a", "=", "1">>, <<"a", ".", "b", "=", "2">>, <<"a", "=", "x", "=", "y">>}
OutputDirs == {"out"}
EnvVars == {<<"HOME", "/root">>, <<"LANG", "C">>}
Environments == {e \in SeqsUpTo(EnvVars, MaxEnv) :
                   \A i, j \in 1..Len(e) : i < j => e[i][1] # e[j][1]}

\* the argument lists handed to run_cli
CliArgs ==
    [project  : Bundles \cup {None},
     target   : Targets \cup {"bogus", None},
     logging  : {None, "trace", "loud"},
     dry_run  : BOOLEAN,
     output   : OutputDirs \cup {None},
     cfg_pairs: {Absent} \cup {Some(s) : s \in SeqsUpTo(Overrides, MaxPairs)}]

(* ---- text ---- *)
\* a text is a sequence of tokens; " " and "\n" are the whitespace tokens
IsSpace(t) == t \in {" ", "\n"}

RECURSIVE LStrip(_)
LStrip(s) == IF s # <<>> /\ IsSpace(Head(s)) THEN LStrip(Tail(s)) ELSE s

RECURSIVE RStrip(_)
RStrip(s) == IF s # <<>> /\ IsSpace(s[Len(s)]) THEN RStrip(SubSeq(s, 1, Len(s) - 1)) ELSE s

\* str.strip()
Strip(s) == RStrip(LStrip(s))

Digits == [n \in 0..9 |-> <<"0", "1", "2", "3", "4", "5", "6", "7", "8", "9">>[n + 1]]

\* str(arg) for an exception argument: a string is itself, an int its digit
PyStr(a) == IF a.t = "int" THEN <<Digits[a.n]>> ELSE a.s

\* str(e.problem_mark): yaml's Mark prints 1-based line and column, indented
MarkStr(m) == <<" ", " ", "in ", m.name, ", line ", Digits[m.line + 1],
                ", column ", Digits[m.column + 1]>>

\* t occurs in s as a contiguous run of tokens
Contains(s, t) == \E i \in 0..(Len(s) - Len(t)) : SubSeq(s, i + 1, i + Len(t)) = t

(* ---- the override parser inside the loader ---- *)
\* position of the first sep in s, 0 when there is none
RECURSIVE FirstIndex(_, _, _)
FirstIndex(s, sep, i) ==
    IF i > Len(s) THEN 0
    ELSE IF s[i] = sep THEN i
    ELSE FirstIndex(s, sep, i + 1)

\* the dotted path of a raw override: what stands before the first "="
RawKey(raw) == SubSeq(raw, 1, FirstIndex(raw, "=", 1) - 1)
\* its value: everything after the first "=", later "=" included
RawValue(raw) == SubSeq(raw, FirstIndex(raw, "=", 1) + 1, Len(raw))

\* split on every sep
RECURSIVE SplitOn(_, _)
SplitOn(s, sep) ==
    LET i == FirstIndex(s, sep, 1)
    IN  IF i = 0 THEN <<s>>
        ELSE <<SubSeq(s, 1, i - 1)>> \o SplitOn(SubSeq(s, i + 1, Len(s)), sep)

\* path segments of a raw override
RawPath(raw) == SplitOn(RawKey(raw), ".")

\* MalformedOverrideError: no "=" at all, or an empty path segment
Malformed(raw) ==
    \/ FirstIndex(raw, "=", 1) = 0
    \/ \E k \in 1..Len(RawPath(raw)) : RawPath(raw)[k] = <<>>

IsPrefix(p, q) == Len(p) <= Len(q) /\ SubSeq(q, 1, Len(p)) = p

\* an OverlayTree is kept as its set of nodes, each under its path from the
\* root: a "map" node for a nested tree, a "scalar" node for a value
Node(path, kind, value) == [path |-> path, kind |-> kind, value |-> value]
EmptyTree == {}
StrictPrefixes(path) == {SubSeq(path, 1, k) : k \in 1..(Len(path) - 1)}

\* as Insert, leaving a scalar met on the way down in place
Insert_KeepScalar(tree, path, value) ==
    {n \in tree : ~IsPrefix(path, n.path) /\ ~(n.path \in StrictPrefixes(path) /\ n.kind = "map")}
    \cup {Node(p, "map", <<>>) : p \in {q \in StrictPrefixes(path) :
                                          ~\E n \in tree : n.path = q /\ n.kind = "scalar"}}
    \cup {Node(path, "scalar", value)}

\* insert value at path: every node on the way down becomes (or stays) a
\* map, a scalar met there is replaced; what stood at path, its subtree
\* included, is replaced by the value
Insert(tree, path, value) ==
    {n \in tree : ~IsPrefix(path, n.path) /\ n.path \notin StrictPrefixes(path)}
    \cup {Node(p, "map", <<>>) : p \in StrictPrefixes(path)}
    \cup {Node(path, "scalar", value)}

\* parse_overrides: the raw entries inserted in command-line order
RECURSIVE parse_overrides(_)
parse_overrides(raws) ==
    IF raws = <<>> THEN EmptyTree
    ELSE LET last == raws[Len(raws)]
         IN  Insert(parse_overrides(SubSeq(raws, 1, Len(raws) - 1)), RawPath(last), RawValue(last))

\* segments joined with "."
RECURSIVE JoinPath(_)
JoinPath(path) ==
    IF Len(path) = 0 THEN <<>>
    ELSE IF Len(path) = 1 THEN path[1]
    ELSE path[1] \o <<".">> \o JoinPath(Tail(path))

\* the tree flattened back into path=value entries
Flatten(tree) == {JoinPath(n.path) \o <<"=">> \o n.value : n \in {m \in tree : m.kind = "scalar"}}

\* the overlay the loader builds from args.cfg_pairs (None: no overrides)
OverlayOf(cfg_pairs) == IF cfg_pairs = Absent THEN EmptyTree ELSE parse_overrides(cfg_pairs[1])

(* ---- what the loader can raise ---- *)
Problems == {<<"mapping values are not allowed here">>,
             <<" ", "could not find expected ':'", "\n">>}
Marks == {[name |-> "project.yaml", line |-> 2, column |-> 0],
          [name |-> "layouts/sme.yaml", line |-> 0, column |-> 7]}
ArgValues == {[t |-> "str", s |-> <<"layout not found">>, n |-> 0],
              [t |-> "int", s |-> <<>>, n |-> 4]}
ExcArgs == SeqsUpTo(ArgValues, MaxArgs)

(* ---- parse_args ---- *)
\* logging_type: the level number, or None for an unknown name
logging_type(string) ==
    CASE string = "critical" -> 50
      [] string = "error"    -> 40
      [] string = "warning"  -> 30
      [] string = "info"     -> 20
      [] string = "debug"    -> 10
      [] string = "trace"    -> 5
      [] OTHER               -> 0        \* 0 stands for None: ArgumentTypeError

\* as ArgsAccepted, with the choices= restriction of --target left out
ArgsAccepted_AnyTarget(c, registry) ==
    /\ c.project # None
    /\ c.target # None
    /\ c.logging # None => logging_type(c.logging) # 0

\* argparse accepts the list: positional present, --target given and among
\* gen.keys(), --logging (when given) a known level
ArgsAccepted(c, registry) ==
    /\ c.project # None
    /\ c.target \in DOMAIN registry
    /\ c.logging # None => logging_type(c.logging) # 0

\* the Namespace parse_args returns, defaults filled in
Namespace(c) ==
    [project   |-> c.project,
     target    |-> c.target,
     logging   |-> IF c.logging = None THEN 20 ELSE logging_type(c.logging),
     dry_run   |-> c.dry_run,
     output    |-> IF c.output = None THEN "." ELSE c.output,
     cfg_pairs |-> c.cfg_pairs]

NoArgs == [project |-> None, target |-> None, logging |-> 0, dry_run |-> FALSE,
           output |-> None, cfg_pairs |-> Absent]

(* ---- logging ---- *)
Rec(level, msg) == [level |-> level, msg |-> msg]

\* as DiagnosticLines, without the loop over os.environ
DiagnosticLines_NoEnv(environ) ==
    <<Rec("debug", <<"Python version: ", "3">>),
      Rec("debug", <<"Platform: ", "Linux">>),
      Rec("debug", <<"Environment:">>)>>

\* print_diagnostics: version, platform, then one line per environment variable
DiagnosticLines(environ) ==
    <<Rec("debug", <<"Python version: ", "3">>),
      Rec("debug", <<"Platform: ", "Linux">>),
      Rec("debug", <<"Environment:">>)>>
    \o [i \in 1..Len(environ) |-> Rec("debug", <<"  ", environ[i][1], " = ", environ[i][2]>>)]

\* as ParseErrorLine, with the problem mark left out of the message
ParseErrorLine_NoMark(problem, mark) ==
    Rec("critical", <<"Error parsing project:", "\n">> \o Strip(problem))

\* the message of the ScannerError handler
ParseErrorLine(problem, mark) ==
    Rec("critical", <<"Error parsing project:", "\n">> \o Strip(problem) \o <<" ">> \o Strip(MarkStr(mark)))

\* as ArgLines, logging e.args[0] only
ArgLines_First(eargs) == [i \in 1..(IF eargs = <<>> THEN 0 ELSE 1) |-> Rec("critical", PyStr(eargs[i]))]

\* for arg in e.args: logger.critical(str(arg))
ArgLines(eargs) == [i \in 1..Len(eargs) |-> Rec("critical", PyStr(eargs[i]))]

\* the three lines that follow an exception which is no UserException
BugGuidance ==
    <<Rec("critical", <<"You should not be seeing this error. Please report this as a bug.">>),
      Rec("critical", <<"To receive a more detailed stacktrace, add ", "--logging trace", " to your build command and submit it with your bug report.">>),
      Rec("critical", <<"URL: <https://github.com/divvun/kbdgen/issues/>">>)>>

NoMark == [name |-> "", line |-> 0, column |-> 0]
Outcome(kind, proj, problem, mark, eargs) ==
    [kind |-> kind, project |-> proj, problem |-> problem, mark |-> mark, eargs |-> eargs]
NoOutcome == Outcome("", None, <<>>, NoMark, <<>>)

EmptyProjectArgs == <<[t |-> "str", s |-> <<"Project parser returned empty project.">>, n |-> 0]>>

VARIABLES
    cli,         \* the argument list of this run
    gen,         \* the generator registry
    environ,     \* os.environ
    pc,          \* where run_cli is
    args,        \* the parsed Namespace
    project,     \* the loaded project
    generator,   \* the constructor gen.get returned
    x,           \* the generator instance
    log,         \* what the logger received, in order
    stderr,      \* what was printed to sys.stderr, in order
    httpDebug,   \* HTTPConnection.debuglevel
    loads,       \* calls of Parser().parse: <<path, cfg_pairs>>
    lookups,     \* calls of gen.get
    instances,   \* generator instances constructed
    generated,   \* calls of generate: [self, output_dir]
    overlay,     \* the OverlayTree the loader built from args.cfg_pairs
    loadResult,  \* what Parser().parse did in this run
    raised,      \* "stage:exception" of the stage that raised ("" when none)
    ret          \* how run_cli ended

vars == <<cli, gen, environ, pc, args, project, generator, x, log, stderr, httpDebug,
          loads, lookups, instances, generated, overlay, loadResult, raised, ret>>

NoInstance == [cls |-> None, project |-> None, opts |-> NoArgs, output_dir |-> None]

Init ==
    /\ cli \in CliArgs
    /\ gen \in Registries
    /\ environ \in Environments
    /\ pc = "Idle"
    /\ args = NoArgs
    /\ project = None
    /\ generator = None
    /\ x = NoInstance
    /\ log = <<>>
    /\ stderr = <<>>
    /\ httpDebug = 0
    /\ loads = <<>>
    /\ lookups = <<>>
    /\ instances = <<>>
    /\ generated = <<>>
    /\ overlay = EmptyTree
    /\ loadResult = NoOutcome
    /\ raised = ""
    /\ ret = "running"

\* what argparse prints before it exits
UsageError == [text |-> <<"usage: kbdgen", "error">>, keys |-> {}]

\* line 127: args = parse_args(cli_args); argparse ends the process with
\* SystemExit(2) when the list does not fit the schema
ParseArgs ==
    /\ pc = "Idle"
    /\ IF ArgsAccepted(cli, gen)
       THEN /\ args' = Namespace(cli)
            /\ pc' = "Parsed"
            /\ UNCHANGED <<stderr, raised, ret>>
       ELSE /\ stderr' = Append(stderr, UsageError)
            /\ raised' = "parse_args:SystemExit"
            /\ ret' = "SystemExit(2)"
            /\ pc' = "Exited"
            /\ UNCHANGED args
    /\ UNCHANGED <<cli, gen, environ, project, generator, x, log, httpDebug,
                   loads, lookups, instances, generated, overlay, loadResult>>

\* lines 130-133: print_diagnostics(), then the verbose requests log for trace
PrintDiagnostics ==
    /\ pc = "Parsed"
    /\ log' = log \o DiagnosticLines(environ)
    /\ httpDebug' = IF args.logging = 5 THEN 1 ELSE httpDebug
    /\ pc' = "Diagnosed"
    /\ UNCHANGED <<cli, gen, environ, args, project, generator, x, stderr,
                   loads, lookups, instances, generated, overlay, loadResult, raised, ret>>

(* ---- load stage, lines 135-160 ---- *)

\* what Parser().parse(args.project, args.cfg_pairs) can do
LoadOutcomes ==
    {Outcome("project", p, <<>>, NoMark, <<>>) : p \in Projects}
    \cup {Outcome("empty", None, <<>>, NoMark, <<>>)}
    \cup {Outcome("ScannerError", None, pr, m, <<>>) : pr \in Problems, m \in Marks}
    \cup {Outcome("UserException", None, <<>>, NoMark, a) : a \in ExcArgs}
    \cup {Outcome("Exception", None, <<>>, NoMark, a) : a \in ExcArgs}

\* line 137-138: an empty project is raised as Exception(message) inside the try
Raised(o) ==
    IF o.kind = "empty"
    THEN Outcome("Exception", None, <<>>, NoMark, EmptyProjectArgs)
    ELSE o

\* as LoadSucceeds, without the check for an empty project
LoadSucceeds_EmptyPasses(o) == o.kind \in {"project", "empty"}

\* the load stage goes on to gen.get only when the try block raised nothing
LoadSucceeds(o) == Raised(o).kind = "project"

\* as HandlerLines, returning before the bug-report lines for every exception
HandlerLines_NoGuidance(e) ==
    IF e.kind = "ScannerError"
    THEN <<ParseErrorLine(e.problem, e.mark)>>
    ELSE ArgLines(e.eargs)

\* what the two except clauses log for a raised outcome
HandlerLines(e) ==
    IF e.kind = "ScannerError"
    THEN <<ParseErrorLine(e.problem, e.mark)>>
    ELSE ArgLines(e.eargs)
         \o (IF e.kind = "UserException" THEN <<>> ELSE BugGuidance)

\* the value both except clauses return
HandlerReturn(e) == "1"

Load ==
    /\ pc = "Diagnosed"
    /\ \E o \in LoadOutcomes :
         /\ loads' = Append(loads, <<args.project, args.cfg_pairs>>)
         /\ overlay' = OverlayOf(args.cfg_pairs)
         /\ loadResult' = o
         /\ IF LoadSucceeds(o)
            THEN /\ project' = o.project
                 /\ pc' = "Loaded"
                 /\ UNCHANGED <<log, raised, ret>>
            ELSE /\ log' = log \o HandlerLines(Raised(o))
                 /\ raised' = "load:" \o Raised(o).kind
                 /\ ret' = HandlerReturn(Raised(o))
                 /\ pc' = "Exited"
                 /\ UNCHANGED project
    /\ UNCHANGED <<cli, gen, environ, args, generator, x, stderr, httpDebug,
                   lookups, instances, generated>>

(* ---- generator lookup, lines 162-167 ---- *)
\* gen.get(target): the constructor, or None for a missing key or an empty slot
Lookup(registry, target) ==
    IF target \in DOMAIN registry THEN registry[target] ELSE None

\* as InvalidTargetLines, without the line of valid targets
InvalidTargetLines_NoList(registry, target) ==
    <<[text |-> <<"Error: '", target, "' is not a valid target.">>, keys |-> {}]>>

\* the two lines printed when the lookup gives None; the second joins gen.keys()
InvalidTargetLines(registry, target) ==
    <<[text |-> <<"Error: '", target, "' is not a valid target.">>, keys |-> {}],
      [text |-> <<"Valid targets: ">>, keys |-> DOMAIN registry]>>

Resolve ==
    /\ pc = "Loaded"
    /\ lookups' = Append(lookups, args.target)
    /\ generator' = Lookup(gen, args.target)
    /\ IF Lookup(gen, args.target) = None
       THEN /\ stderr' = stderr \o InvalidTargetLines(gen, args.target)
            /\ ret' = "1"
            /\ pc' = "Exited"
       ELSE /\ pc' = "Resolved"
            /\ UNCHANGED <<stderr, ret>>
    /\ UNCHANGED <<cli, gen, environ, args, project, x, log, httpDebug,
                   loads, instances, generated, overlay, loadResult, raised>>

(* ---- construction, line 169 ---- *)
\* dict(args._get_kwargs()): every attribute of the Namespace, dry_run included
KwArgs(a) == a

\* the generator's output_dir property: the "output" entry of its options
OutputDirOf(opts) == opts.output

\* as NewInstance, constructing the generator without the loaded project
NewInstance_NoProject(cls, proj, opts) ==
    [cls |-> cls, project |-> None, opts |-> opts, output_dir |-> OutputDirOf(opts)]

NewInstance(cls, proj, opts) ==
    [cls |-> cls, project |-> proj, opts |-> opts, output_dir |-> OutputDirOf(opts)]

\* the constructor returns an instance or raises; nothing catches what it raises
Construct ==
    /\ pc = "Resolved"
    /\ \E ok \in BOOLEAN :
         IF ok
         THEN /\ x' = NewInstance(generator, project, KwArgs(args))
              /\ instances' = Append(instances, NewInstance(generator, project, KwArgs(args)))
              /\ pc' = "Generating"
              /\ UNCHANGED <<raised, ret>>
         ELSE /\ raised' = "construct:Exception"
              /\ ret' = "Exception"
              /\ pc' = "Exited"
              /\ UNCHANGED <<x, instances>>
    /\ UNCHANGED <<cli, gen, environ, args, project, generator, log, stderr, httpDebug,
                   loads, lookups, generated, overlay, loadResult>>

(* ---- generation, lines 172-175 ---- *)
GenerateOutcomes == {"ok", "KbdgenException", "Exception"}

\* as GenerateArg, passing the default directory instead of x.output_dir
GenerateArg_Cwd(inst) == "."

\* the argument of generate
GenerateArg(inst) == inst.output_dir

\* as GenerateCalls, calling generate a second time after a KbdgenException
GenerateCalls_Retry(inst, o) ==
    IF o = "KbdgenException"
    THEN <<[self |-> inst, output_dir |-> GenerateArg(inst)],
           [self |-> inst, output_dir |-> GenerateArg(inst)]>>
    ELSE <<[self |-> inst, output_dir |-> GenerateArg(inst)]>>

\* the calls of generate the try block makes: one, on x, whatever comes of it
GenerateCalls(inst, o) == <<[self |-> inst, output_dir |-> GenerateArg(inst)]>>

\* how run_cli ends after generate: the function falls off its end (returns
\* None) when generate returned or raised KbdgenException; anything else
\* leaves run_cli as an uncaught exception
GenerateReturn(o) == IF o = "Exception" THEN "Exception" ELSE "None"

\* except KbdgenException as e: logger.error(e)
GenerateLines(o) ==
    IF o = "KbdgenException" THEN <<Rec("error", <<"KbdgenException">>)>> ELSE <<>>

\* x.generate(x.output_dir) is called whatever args.dry_run is: run_cli
\* never reads it, it only travels to the constructor inside the kwargs
Generate ==
    /\ pc = "Generating"
    /\ \E o \in GenerateOutcomes :
         /\ generated' = generated \o GenerateCalls(x, o)
         /\ log' = log \o GenerateLines(o)
         /\ raised' = IF o = "ok" THEN raised ELSE "generate:" \o o
         /\ ret' = GenerateReturn(o)
    /\ pc' = "Exited"
    /\ UNCHANGED <<cli, gen, environ, args, project, generator, x, stderr, httpDebug,
                   loads, lookups, instances, overlay, loadResult>>

Next ==
    \/ ParseArgs
    \/ PrintDiagnostics
    \/ Load
    \/ Resolve
    \/ Construct
    \/ Generate

Spec == Init /\ [][Next]_vars

(* ---- the process around run_cli ---- *)
\* sys.exit(run_cli(argv)): None is status 0, an int is that status,
\* SystemExit(2) from argparse is status 2, an uncaught exception is status 1
ExitStatus(r) ==
    CASE r = "None"          -> 0
      [] r = "1"             -> 1
      [] r = "SystemExit(2)" -> 2
      [] r = "Exception"     -> 1
      [] OTHER               -> -1

(* ---- the dispatcher's states, read off the run ---- *)
Exited == pc = "Exited"
\* Done: generate was called and returned without raising
Done == Exited /\ Len(generated) = 1 /\ raised = ""
\* Failed: the dispatcher ran (the arguments were accepted) and a stage failed
Failed == Exited /\ raised # "parse_args:SystemExit" /\ ~Done
GuidanceEmitted == \E i \in 1..Len(log) : log[i] = BugGuidance[2]

TypeOK ==
    /\ pc \in {"Idle", "Parsed", "Diagnosed", "Loaded", "Resolved", "Generating", "Exited"}
    /\ ret \in {"running", "None", "1", "SystemExit(2)", "Exception"}
    /\ (pc = "Exited") <=> (ret # "running")

(* ---- properties ---- *)
CriticalLines == SelectSeq(log, LAMBDA r : r.level = "critical")
NoOverrides == args.cfg_pairs \in {Absent, Some(<<>>)}
NothingAfterLoad == lookups = <<>> /\ generator = None /\ instances = <<>> /\ generated = <<>>

\* C1: with --dry-run set, generate is never invoked.
C1_DryRunNeverGenerates == cli.dry_run => generated = <<>>

\* C2: exit status 0 only after Done; every run that ends in Failed,
\* a KbdgenException from generate included, has exit status 1.
C2_ExitStatusTellsFailure ==
    Exited => /\ (ExitStatus(ret) = 0 => Done)
              /\ (Failed => ExitStatus(ret) = 1)

\* C3: a loaded project, a registered target, no overrides and nothing
\* raised: the run is Done with exit status 0, generate was invoked exactly
\* once, on the constructed instance, with the configured output directory.
C3_SuccessfulRun ==
    (Exited /\ project # None /\ generator # None /\ NoOverrides /\ raised = "")
    => /\ Done
       /\ ret = "None" /\ ExitStatus(ret) = 0
       /\ Len(generated) = 1
       /\ generated[1].output_dir = (IF cli.output = None THEN "." ELSE cli.output)
       /\ generated[1].self = x
C3_Witness ==
    /\ Done /\ NoOverrides /\ cli.output = "out"
    /\ generated = <<[self |-> x, output_dir |-> "out"]>>

\* C4: when the load stage fails in any way the run has ended with exit
\* status 1, and neither lookup nor construction nor generate happened.
C4_LoadFailureHalts ==
    (loads # <<>> /\ loadResult.kind # "project")
    => /\ Exited /\ Failed
       /\ ret = "1" /\ ExitStatus(ret) = 1
       /\ NothingAfterLoad
C4_Witness ==
    /\ Exited /\ loadResult.kind = "empty" /\ ret = "1" /\ NothingAfterLoad

\* C5: when the registry lookup returns nothing after a successful load the
\* run ends with exit status 1 as a user error (no bug-report guidance), the
\* report lists the registry keys, nothing is constructed or generated.
C5_UnknownTarget ==
    (lookups # <<>> /\ generator = None)
    => /\ Exited /\ Failed
       /\ ret = "1" /\ ExitStatus(ret) = 1
       /\ ~GuidanceEmitted
       /\ \E i \in 1..Len(stderr) : stderr[i].keys = DOMAIN gen
       /\ instances = <<>> /\ generated = <<>>
C5_Witness ==
    /\ Exited /\ project \in Projects /\ lookups = <<args.target>> /\ generator = None
    /\ Len(stderr) = 2 /\ stderr[2].keys = Targets

\* C6: a ScannerError from the loader gives exactly one critical message,
\* which contains the problem text and the location marker; exit status 1;
\* the bug-report guidance is not emitted.
C6_ParseError ==
    loadResult.kind = "ScannerError"
    => /\ Len(CriticalLines) = 1
       /\ Contains(CriticalLines[1].msg, Strip(loadResult.problem))
       /\ Contains(CriticalLines[1].msg,
                   <<loadResult.mark.name, ", line ", Digits[loadResult.mark.line + 1],
                     ", column ", Digits[loadResult.mark.column + 1]>>)
       /\ Exited /\ ret = "1" /\ ExitStatus(ret) = 1
       /\ ~GuidanceEmitted
C6_Witness ==
    /\ Exited /\ loadResult.kind = "ScannerError"
    /\ loadResult.problem # Strip(loadResult.problem)
    /\ Len(CriticalLines) = 1

\* C7: a UserException from the loader has every argument logged at critical
\* severity in argument order, exit status 1, and no bug-report guidance.
C7_UserException ==
    loadResult.kind = "UserException"
    => /\ Len(CriticalLines) = Len(loadResult.eargs)
       /\ \A i \in 1..Len(loadResult.eargs) : CriticalLines[i].msg = PyStr(loadResult.eargs[i])
       /\ Exited /\ ret = "1" /\ ExitStatus(ret) = 1
       /\ ~GuidanceEmitted
C7_Witness ==
    /\ Exited /\ loadResult.kind = "UserException"
    /\ Len(loadResult.eargs) = 2 /\ loadResult.eargs[1] # loadResult.eargs[2]
    /\ Len(CriticalLines) = 2

\* what the loader's failure carries: the arguments of the exception, or the
\* message of the empty-project exception
FailureArgs == IF loadResult.kind = "empty" THEN EmptyProjectArgs ELSE loadResult.eargs

\* C8: an empty project, or an exception that is neither ScannerError nor
\* UserException, is logged at critical severity, followed by the instruction
\* to re-run with --logging trace and to report a bug; exit status 1.
C8_InternalError ==
    loadResult.kind \in {"empty", "Exception"}
    => /\ Len(CriticalLines) = Len(FailureArgs) + 3
       /\ \A i \in 1..Len(FailureArgs) : CriticalLines[i].msg = PyStr(FailureArgs[i])
       /\ Contains(CriticalLines[Len(FailureArgs) + 1].msg, <<"You should not be seeing this error. Please report this as a bug.">>)
       /\ Contains(CriticalLines[Len(FailureArgs) + 2].msg, <<"--logging trace">>)
       /\ Exited /\ ret = "1" /\ ExitStatus(ret) = 1
C8_Witness ==
    /\ Exited /\ loadResult.kind = "empty" /\ GuidanceEmitted
    /\ CriticalLines[1].msg = <<"Project parser returned empty project.">>

\* C9: when generate fails with anything but KbdgenException the bug-report
\* guidance is emitted and the run ends with exit status 1.
C9_GenerateDefectReported ==
    raised = "generate:Exception" => (GuidanceEmitted /\ ExitStatus(ret) = 1)

\* the argument list violates the schema: no project, no --target or one
\* that is no registry key, or a --logging level outside the six names
ViolatesSchema ==
    \/ cli.project = None
    \/ cli.target \notin DOMAIN gen
    \/ cli.logging \notin {None, "critical", "error", "warning", "info", "debug", "trace"}

C11_OneInstanceOneGenerate ==
    /\ Len(instances) <= 1
    /\ Len(generated) <= 1
    /\ \A i \in 1..Len(generated) : Len(instances) = 1 /\ generated[i].self = instances[1]
C11_Witness ==
    /\ Exited /\ raised = "generate:KbdgenException"
    /\ Len(instances) = 1 /\ Len(generated) = 1 /\ generated[1].self = instances[1]

\* the override list the loader was given
GivenOverrides == IF loads[1][2] = Absent THEN <<>> ELSE loads[1][2][1]
\* two paths are in conflict when they are equal or one extends the other
Conflict(p, q) == IsPrefix(p, q) \/ IsPrefix(q, p)
\* entry i is the last write at its path, and no later entry replaced it
Survives(raws, i) == \A j \in (i + 1)..Len(raws) : ~Conflict(RawPath(raws[i]), RawPath(raws[j]))

DebugLines == SelectSeq(log, LAMBDA r : r.level = "debug")
\* how many times the dump was started
DumpCount == Len(SelectSeq(log, LAMBDA r : r.level = "debug" /\ r.msg[1] = "Python version: "))

\* C13 as stated: the diagnostics dump happens exactly once in every
\* invocation, also when argument validation fails.
C13_DiagnosticsInEveryRun == Exited => DumpCount = 1

\* C13, amended: the dump happens exactly once in every invocation whose
\* arguments parse_args accepts, after argument parsing and before the load,
\* so it has run whenever load, lookup, construction or generate fails; when
\* argument validation fails it does not happen at all.
C13_DiagnosticsAfterParse ==
    /\ (pc \notin {"Idle", "Parsed"} /\ raised # "parse_args:SystemExit")
       => /\ DumpCount = 1
          /\ Len(DebugLines) = 3 + Len(environ)
          /\ SubSeq(log, 1, Len(DebugLines)) = DebugLines
          /\ \A i \in 1..Len(environ) :
               /\ Contains(DebugLines[3 + i].msg, <<environ[i][1]>>)
               /\ Contains(DebugLines[3 + i].msg, <<environ[i][2]>>)
    /\ (pc \in {"Idle", "Parsed"} \/ raised = "parse_args:SystemExit")
       => (log = <<>> /\ loads = <<>>)
C13_Witness ==
    /\ Exited /\ raised = "load:ScannerError" /\ Len(environ) = 1
    /\ DumpCount = 1 /\ Len(DebugLines) = 4 /\ Len(log) = 5

\* C14: when constructing the generator fails, the failure is reported with
\* the bug-report guidance, the run ends with exit status 1 and generate is
\* never invoked.
C14_ConstructorDefectReported ==
    raised = "construct:Exception"
    => (Exited /\ GuidanceEmitted /\ ExitStatus(ret) = 1 /\ generated = <<>>)

\* C15: the stages run in the order parse, load, lookup, construction,
\* generate, each at most once and only after every earlier stage succeeded;
\* the generator is constructed with the project the load stage returned.
C15_LinearPipeline ==
    /\ Len(loads) <= 1 /\ Len(lookups) <= 1 /\ Len(instances) <= 1 /\ Len(generated) <= 1
    /\ loads # <<>>
       => (args = Namespace(cli) /\ ArgsAccepted(cli, gen) /\ loads[1] = <<cli.project, cli.cfg_pairs>>)
    /\ lookups # <<>>
       => (loads # <<>> /\ loadResult.kind = "project" /\ project = loadResult.project
           /\ lookups[1] = cli.target)
    /\ instances # <<>>
       => (lookups # <<>> /\ generator = gen[cli.target] /\ generator # None
           /\ instances[1].cls = generator
           /\ instances[1].project = loadResult.project
           /\ instances[1].opts = KwArgs(Namespace(cli)))
    /\ generated # <<>> => (instances # <<>> /\ generated[1].self = instances[1])
    /\ (Exited /\ raised # "" /\ ~(raised \in {"generate:KbdgenException", "generate:Exception"}))
       => generated = <<>>
C15_Witness ==
    /\ Exited /\ raised = ""
    /\ Len(loads) = 1 /\ Len(lookups) = 1 /\ Len(instances) = 1 /\ Len(generated) = 1
    /\ loadResult.project = "projB" /\ instances[1].project = "projB"

\* a message a person can read reached the log or stderr, or the interpreter
\* printed the traceback of an uncaught exception
MessageEmitted ==
    \/ \E i \in 1..Len(log) : log[i].level \in {"critical", "error"}
    \/ stderr # <<>>
    \/ ret = "Exception"

\* C16: every run that ends in a Failed state has emitted at least one
\* human-readable message, also when the exception carries no arguments.
C16_FailureHasMessage == Failed => MessageEmitted
====
